---------------------------- MODULE Spec2Model ----------------------------
(***************************************************************************)
(* JAI - Judicial Assistance Interface (src/JAI.py).                       *)
(*                                                                         *)
(* The program is a Streamlit script: every user interaction of a browser  *)
(* session re-runs the script from line 1 to the first st.stop(), the      *)
(* first uncaught exception or the last line.  A widget's on_change        *)
(* callback runs at the start of the rerun it triggers, before line 1.     *)
(* State that outlives a run: the MongoDB collections (users, sq_ans), the *)
(* process-wide st.cache_resource entry of load_qas, and per browser       *)
(* session st.session_state (authentication_status, username, chat,        *)
(* input_text).                                                            *)
(*                                                                         *)
(* Text is a sequence of characters.  An embedding is a pair of small      *)
(* integers; a normalised vector v/|v| is kept as the pair (v, |v|^2) and  *)
(* a score as num/sqrt(den), compared exactly, with NaN for 0/0.  On the   *)
(* vectors used here (components -1, 0, 1) float32 orders and ties the     *)
(* scores the same way.                                                    *)
(***************************************************************************)
EXTENDS Integers, Sequences, FiniteSets, TLC

VARIABLES
    store_up,       \* MongoDB answers client.admin.command("ping")
    qa_col,         \* db["sq_ans"]: the answer records, in find() order
    user_col,       \* db["users"]: the credential documents, in insertion order
    qas_cache,      \* st.cache_resource entry of load_qas: (docs, EMB)
    auth_status,    \* st.session_state["authentication_status"] per session
    username,       \* st.session_state["username"] per session
    session_keys,   \* which of "chat", "input_text" are in st.session_state
    chat,           \* st.session_state.chat per session
    input_text,     \* st.session_state.input_text per session
    page,           \* what the session's last run rendered
    r_sub,          \* a register submission between find_one and insert_one
    cleared         \* what the Clear Chat button returned in the session's last run

vars == <<store_up, qa_col, user_col, qas_cache, auth_status, username,
          session_keys, chat, input_text, page, r_sub, cleared>>

----------------------------------------------------------------------------
\* Bounds of the model.
MaxText == 2
MaxCorpus == 2
MaxScored == 3
MaxChat == 2
MaxUsers == 2

Sessions == {"s1", "s2"}
Chars == {" ", "a"}
Whitespace == {" "}
Usernames == {"alice", "bob"}
Names == {"Asha"}
Emails == {"a@x.in"}
Passwords == {"pw1", "pw2"}
Vectors == {<<0, 0>>, <<1, 0>>, <<0, 1>>, <<1, 1>>, <<-1, 0>>}

SeqsUpTo(S, n) == UNION {[1..k -> S] : k \in 0..n}
Texts == SeqsUpTo(Chars, MaxText)

----------------------------------------------------------------------------
\* str.strip()
RECURSIVE lstrip(_)
lstrip(t) ==
    IF t = <<>> THEN <<>>
    ELSE IF Head(t) \in Whitespace THEN lstrip(Tail(t)) ELSE t

RECURSIVE rstrip(_)
rstrip(t) ==
    IF t = <<>> THEN <<>>
    ELSE IF t[Len(t)] \in Whitespace THEN rstrip(SubSeq(t, 1, Len(t) - 1)) ELSE t

strip(t) == rstrip(lstrip(t))

----------------------------------------------------------------------------
\* Embeddings, normalisation and scores.
Dot(a, b) == a[1] * b[1] + a[2] * b[2]
Norm2(a) == Dot(a, a)

\* x / np.linalg.norm(x): 0/0 is NaN in every component, no exception is raised.
normalize(x) == [nan |-> Norm2(x) = 0, dir |-> x, n2 |-> Norm2(x)]

\* One entry of EMB @ v.T: a sum of products, NaN as soon as one factor is NaN.
score(row, qn) ==
    IF row.nan \/ qn.nan THEN [nan |-> TRUE, num |-> 0, den |-> 1]
    ELSE [nan |-> FALSE, num |-> Dot(row.dir, qn.dir), den |-> row.n2 * qn.n2]

\* IEEE x <= y on scores: false when either is NaN.
LessEq(x, y) ==
    /\ ~x.nan
    /\ ~y.nan
    /\ IF x.num <= 0 /\ y.num >= 0 THEN TRUE
       ELSE IF x.num >= 0 /\ y.num <= 0 THEN FALSE
       ELSE IF x.num > 0 THEN x.num * x.num * y.den <= y.num * y.num * x.den
       ELSE x.num * x.num * y.den >= y.num * y.num * x.den

\* np.argmax's scan from position i with the running maximum at position m
\* (1-based here): a NaN ends the scan, and only !(s[i] <= s[m]) moves m.
RECURSIVE argmax_scan(_, _, _)
argmax_scan(s, m, i) ==
    IF s[m].nan \/ i > Len(s) THEN m
    ELSE IF ~LessEq(s[i], s[m]) THEN argmax_scan(s, i, i + 1)
    ELSE argmax_scan(s, m, i + 1)

\* int(np.argmax(...)): 0-based.
np_argmax(s) == argmax_scan(s, 1, 2) - 1

scores(EMB, x) == [i \in 1..Len(EMB) |-> score(EMB[i], normalize(x))]

----------------------------------------------------------------------------
\* The credential store.
\* bcrypt.hashpw(raw_pwd, gensalt()): the salt is left out, bcrypt.checkpw
\* accepts a password exactly when the hash was made from it.
hashpw(raw_pwd) == <<"bcrypt", raw_pwd>>

Matching(u) == {i \in 1..Len(user_col) : user_col[i].username = u}
Min(S) == CHOOSE i \in S : \A j \in S : i <= j
Max(S) == CHOOSE i \in S : \A j \in S : i >= j

\* find_one on a field no document has: nothing is ever found.
find_one_wrong_field(u) == {i \in Matching(u) : FALSE} # {}

\* user_col.find_one({"username": u}) finds a document (the first one).
find_one(u) == Matching(u) # {}

\* fetch_credentials: a dict keyed by username, a later document of the same
\* username overwrites an earlier one.
fetch_credentials(u) == user_col[Max(Matching(u))]

\* The password check of authenticator.login against the fetched credentials.
check_credentials(u, p) ==
    /\ Matching(u) # {}
    /\ fetch_credentials(u).password = hashpw(p)

\* add_user: one new document, appended by insert_one.
add_user(u, n, e, raw_pwd) ==
    Append(user_col, [username |-> u, name |-> n, email |-> e,
                      password |-> hashpw(raw_pwd)])

NoSub == [pending |-> FALSE, username |-> "", name |-> "", email |-> "",
          raw_pwd |-> ""]
RegForms == [pending : {TRUE}, username : Usernames, name : Names,
             email : Emails, raw_pwd : Passwords]

----------------------------------------------------------------------------
\* load_qas under st.cache_resource: a cached value is returned as is; a load
\* reads all of sq_ans, and np.linalg.norm(emb, axis=1) raises on the 1-d
\* array an empty result makes, so nothing is cached then.
NoCache == [loaded |-> FALSE, docs |-> <<>>, EMB |-> <<>>]

load_qas ==
    IF qas_cache.loaded THEN [ok |-> TRUE, cache |-> qas_cache]
    ELSE IF Len(qa_col) = 0 THEN [ok |-> FALSE, cache |-> qas_cache]
    ELSE [ok |-> TRUE,
          cache |-> [loaded |-> TRUE, docs |-> qa_col,
                     EMB |-> [i \in 1..Len(qa_col) |->
                                  normalize(qa_col[i].embedding)]]]

----------------------------------------------------------------------------
\* One run of the script for a session whose st.session_state is ss (after
\* the callbacks of this rerun), on the event ev that triggered the rerun.
Events == {"none", "login", "register", "logout", "clear"}

\* A run that ends before the text_input is rendered: Streamlit drops the
\* state of a widget that a run did not render.
Stopped(ss, a, u, pg, sub) ==
    [auth |-> a, user |-> u, keys |-> ss.keys \ {"input_text"},
     chat |-> ss.chat, input |-> <<>>, page |-> pg, cache |-> qas_cache,
     sub |-> sub, clicked |-> FALSE]

\* authenticator.login: an authenticated session stays so; a submitted login
\* form is checked; otherwise the status is what it was.
login(ss, ev) ==
    IF ss.auth = "True" THEN [auth |-> "True", user |-> ss.user]
    ELSE IF ev.kind = "login"
         THEN IF check_credentials(ev.username, ev.raw_pwd)
              THEN [auth |-> "True", user |-> ev.username]
              ELSE [auth |-> "False", user |-> "None"]
         ELSE [auth |-> ss.auth, user |-> ss.user]

\* The Clear Chat button: st.session_state.chat = [] when clicked.
clear_chat(turns, clicked) == IF clicked THEN <<>> ELSE turns

\* Lines 99-173: the logged-in part of the run.
Serve(ss, st, ev) ==
    LET out == IF ev.kind = "logout"
               THEN [auth |-> "None", user |-> "None"] ELSE st
        ld == load_qas
    IN  IF ~ld.ok
        THEN [Stopped(ss, out.auth, out.user, "load_error", NoSub)
                 EXCEPT !.cache = ld.cache]
        ELSE [auth |-> out.auth, user |-> out.user,
              keys |-> ss.keys \cup {"chat", "input_text"},
              chat |-> clear_chat(IF "chat" \in ss.keys THEN ss.chat ELSE <<>>,
                                  ev.kind = "clear"),
              input |-> IF "input_text" \in ss.keys THEN ss.input ELSE <<>>,
              page |-> "chat", cache |-> ld.cache, sub |-> NoSub,
              clicked |-> ev.kind = "clear"]

\* Lines 53-173: the run once the ping has answered.
Connected(ss, ev) ==
    LET st == login(ss, ev)
    IN  IF st.auth = "False"
        THEN Stopped(ss, st.auth, st.user, "auth_failed", NoSub)
        ELSE IF st.auth = "None"
        THEN IF ev.kind = "register"
             THEN IF find_one(ev.username)
                  THEN Stopped(ss, st.auth, st.user, "reg_exists", NoSub)
                  ELSE Stopped(ss, st.auth, st.user, "registering",
                               [pending |-> TRUE, username |-> ev.username,
                                name |-> ev.name, email |-> ev.email,
                                raw_pwd |-> ev.raw_pwd])
             ELSE Stopped(ss, st.auth, st.user, "please_login", NoSub)
        ELSE Serve(ss, st, ev)

\* The script without the st.stop() of line 14: a failed ping is reported and
\* the run goes on.
Script_no_stop(ss, ev) == Connected(ss, ev)

\* Lines 10-14, then the rest.
Script(ss, ev) ==
    IF ~store_up
    THEN Stopped(ss, ss.auth, ss.user, "db_error", NoSub)
    ELSE Connected(ss, ev)

----------------------------------------------------------------------------
\* answer_question, the on_change callback of the text_input, on the raw
\* embedding x that model.encode returns for the trimmed text.  It reads the
\* docs and EMB that the run which rendered the widget got from load_qas.
NoMatch == <<"answer", 0>>
IsPositive(sc) == ~sc.nan /\ sc.num > 0

\* answer_question with a similarity threshold: below it, a fixed reply.
answer_question_threshold(ss, x) ==
    LET q == strip(ss.input)
    IN  IF q = <<>> THEN ss
        ELSE LET sc == scores(qas_cache.EMB, x)
                 idx == np_argmax(sc)
                 ans == IF IsPositive(sc[idx + 1])
                        THEN qas_cache.docs[idx + 1].answer ELSE NoMatch
             IN  [ss EXCEPT !.chat = Append(@, <<q, ans>>), !.input = <<>>]

\* answer_question without the strip().
answer_question_no_strip(ss, x) ==
    LET q == ss.input
    IN  IF q = <<>> THEN ss
        ELSE LET idx == np_argmax(scores(qas_cache.EMB, x))
                 ans == qas_cache.docs[idx + 1].answer
             IN  [ss EXCEPT !.chat = Append(@, <<q, ans>>), !.input = <<>>]

\* answer_question with chat.insert(0, ...) for chat.append(...).
answer_question_insert(ss, x) ==
    LET q == strip(ss.input)
    IN  IF q = <<>> THEN ss
        ELSE LET idx == np_argmax(scores(qas_cache.EMB, x))
                 ans == qas_cache.docs[idx + 1].answer
             IN  [ss EXCEPT !.chat = <<<<q, ans>>>> \o @, !.input = <<>>]

answer_question(ss, x) ==
    LET q == strip(ss.input)
    IN  IF q = <<>> THEN ss
        ELSE LET idx == np_argmax(scores(qas_cache.EMB, x))
                 ans == qas_cache.docs[idx + 1].answer
             IN  [ss EXCEPT !.chat = Append(@, <<q, ans>>), !.input = <<>>]

----------------------------------------------------------------------------
\* The sq_ans collections the ingestion step may have left.
Corpora(n) ==
    {[i \in 1..Len(e) |-> [question |-> <<"question", i>>,
                           answer |-> <<"answer", i>>,
                           embedding |-> e[i]]] : e \in SeqsUpTo(Vectors, n)}

Cur(s) == [auth |-> auth_status[s], user |-> username[s],
           keys |-> session_keys[s], chat |-> chat[s], input |-> input_text[s]]

\* The session state and the cache a run leaves.
Finish(s, r) ==
    /\ auth_status' = [auth_status EXCEPT ![s] = r.auth]
    /\ username' = [username EXCEPT ![s] = r.user]
    /\ session_keys' = [session_keys EXCEPT ![s] = r.keys]
    /\ chat' = [chat EXCEPT ![s] = r.chat]
    /\ input_text' = [input_text EXCEPT ![s] = r.input]
    /\ page' = [page EXCEPT ![s] = r.page]
    /\ r_sub' = [r_sub EXCEPT ![s] = r.sub]
    /\ cleared' = [cleared EXCEPT ![s] = r.clicked]
    /\ qas_cache' = r.cache

LoginPages == {"auth_failed", "please_login", "reg_exists", "reg_created",
               "reg_error"}
RegisterPages == {"please_login", "reg_exists", "reg_created", "reg_error"}
Pages == LoginPages \cup {"new", "db_error", "registering", "load_error", "chat"}

Init ==
    /\ store_up \in BOOLEAN
    /\ qa_col \in Corpora(MaxCorpus)
    /\ user_col = <<>>
    /\ qas_cache = NoCache
    /\ auth_status = [s \in Sessions |-> "None"]
    /\ username = [s \in Sessions |-> "None"]
    /\ session_keys = [s \in Sessions |-> {}]
    /\ chat = [s \in Sessions |-> <<>>]
    /\ input_text = [s \in Sessions |-> <<>>]
    /\ page = [s \in Sessions |-> "new"]
    /\ r_sub = [s \in Sessions |-> NoSub]
    /\ cleared = [s \in Sessions |-> FALSE]

\* The page is opened, or re-run with no widget changed.
Rerun(s) ==
    /\ page[s] # "registering"
    /\ Finish(s, Script(Cur(s), [kind |-> "none"]))
    /\ UNCHANGED <<store_up, qa_col, user_col>>

\* The login form is submitted.
LoginSubmit(s, u, p) ==
    /\ page[s] \in LoginPages
    /\ Finish(s, Script(Cur(s), [kind |-> "login", username |-> u, raw_pwd |-> p]))
    /\ UNCHANGED <<store_up, qa_col, user_col>>

\* The register form is submitted: the run up to find_one and, when the
\* username is found, to its end.
RegisterSubmit(s, f) ==
    /\ page[s] \in RegisterPages
    /\ find_one(f.username)
         \/ Len(user_col) + Cardinality({t \in Sessions : r_sub[t].pending}) < MaxUsers
    /\ Finish(s, Script(Cur(s), [kind |-> "register", username |-> f.username,
                                 name |-> f.name, email |-> f.email,
                                 raw_pwd |-> f.raw_pwd]))
    /\ UNCHANGED <<store_up, qa_col, user_col>>

\* The rest of that run: add_user's insert_one, which raises when the store
\* is gone, and the lines up to st.stop().
RegisterInsert(s) ==
    /\ page[s] = "registering"
    /\ user_col' = IF store_up
                   THEN add_user(r_sub[s].username, r_sub[s].name,
                                 r_sub[s].email, r_sub[s].raw_pwd)
                   ELSE user_col
    /\ page' = [page EXCEPT ![s] = IF store_up THEN "reg_created" ELSE "reg_error"]
    /\ r_sub' = [r_sub EXCEPT ![s] = NoSub]
    /\ UNCHANGED <<store_up, qa_col, qas_cache, auth_status, username,
                   session_keys, chat, input_text, cleared>>

\* The Logout button is clicked.
Logout(s) ==
    /\ page[s] \in {"chat", "load_error"}
    /\ Finish(s, Script(Cur(s), [kind |-> "logout"]))
    /\ UNCHANGED <<store_up, qa_col, user_col>>

\* The Clear Chat button is clicked.
ClearChat(s) ==
    /\ page[s] = "chat"
    /\ Finish(s, Script(Cur(s), [kind |-> "clear"]))
    /\ UNCHANGED <<store_up, qa_col, user_col>>

\* The query handled in the script body, after the Clear Chat button, and not
\* in the callback.
SubmitQuery_after_clear(s, t, x, click) ==
    /\ page[s] = "chat"
    /\ t # input_text[s]
    /\ strip(t) # <<>> => Len(chat[s]) < MaxChat
    /\ LET r == Script([Cur(s) EXCEPT !.input = t],
                       [kind |-> IF click THEN "clear" ELSE "none"])
       IN  Finish(s, IF r.page = "chat" THEN answer_question(r, x) ELSE r)
    /\ UNCHANGED <<store_up, qa_col, user_col>>

\* The text_input is changed to t: the callback, then the run.  With click,
\* the same rerun also carries a click on Clear Chat.
SubmitQuery(s, t, x, click) ==
    /\ page[s] = "chat"
    /\ t # input_text[s]
    /\ strip(t) # <<>> => Len(chat[s]) < MaxChat
    /\ Finish(s, Script(answer_question([Cur(s) EXCEPT !.input = t], x),
                         [kind |-> IF click THEN "clear" ELSE "none"]))
    /\ UNCHANGED <<store_up, qa_col, user_col>>

\* The store becomes unreachable, or reachable again.
StoreDown ==
    /\ store_up
    /\ store_up' = FALSE
    /\ UNCHANGED <<qa_col, user_col, qas_cache, auth_status, username,
                   session_keys, chat, input_text, page, r_sub, cleared>>

StoreUp ==
    /\ ~store_up
    /\ store_up' = TRUE
    /\ UNCHANGED <<qa_col, user_col, qas_cache, auth_status, username,
                   session_keys, chat, input_text, page, r_sub, cleared>>

\* A rerun of the script starts for session s.
StartedRun(s) ==
    \/ Rerun(s)
    \/ \E u \in Usernames, p \in Passwords : LoginSubmit(s, u, p)
    \/ \E f \in RegForms : RegisterSubmit(s, f)
    \/ Logout(s)
    \/ ClearChat(s)
    \/ \E t \in Texts, x \in Vectors, click \in BOOLEAN : SubmitQuery(s, t, x, click)

Step(s) ==
    \/ StartedRun(s)
    \/ RegisterInsert(s)

\* One browser session.
Next ==
    \/ Step("s1")
    \/ StoreDown
    \/ StoreUp

Spec == Init /\ [][Next]_vars

----------------------------------------------------------------------------
\* Retrieval alone: a logged-in session on the chat page, over every corpus
\* of up to MaxScored records that load_qas can have cached.
InitAnswer ==
    /\ store_up = TRUE
    /\ qa_col \in Corpora(MaxScored) \ {<<>>}
    /\ user_col = <<[username |-> "alice", name |-> "Asha", email |-> "a@x.in",
                     password |-> hashpw("pw1")]>>
    /\ qas_cache = [loaded |-> TRUE, docs |-> qa_col,
                    EMB |-> [i \in 1..Len(qa_col) |-> normalize(qa_col[i].embedding)]]
    /\ auth_status = [s \in Sessions |-> IF s = "s1" THEN "True" ELSE "None"]
    /\ username = [s \in Sessions |-> IF s = "s1" THEN "alice" ELSE "None"]
    /\ session_keys = [s \in Sessions |->
                          IF s = "s1" THEN {"chat", "input_text"} ELSE {}]
    /\ chat = [s \in Sessions |-> <<>>]
    /\ input_text = [s \in Sessions |-> <<>>]
    /\ page = [s \in Sessions |-> IF s = "s1" THEN "chat" ELSE "new"]
    /\ r_sub = [s \in Sessions |-> NoSub]
    /\ cleared = [s \in Sessions |-> FALSE]

NextAnswer ==
    \/ \E t \in Texts, x \in Vectors, click \in BOOLEAN :
           SubmitQuery("s1", t, x, click)
    \/ ClearChat("s1")
    \/ Rerun("s1")

SpecAnswer == InitAnswer /\ [][NextAnswer]_vars

\* Two browser sessions on the login page: registration and authentication.
InitRace ==
    /\ Init
    /\ store_up = TRUE
    /\ Len(qa_col) = 1

StepRace(s) ==
    \/ Rerun(s)
    \/ \E u \in Usernames, p \in Passwords : LoginSubmit(s, u, p)
    \/ \E f \in RegForms : RegisterSubmit(s, f)
    \/ RegisterInsert(s)
    \/ Logout(s)

NextRace ==
    \/ \E s \in Sessions : StepRace(s)
    \/ StoreDown
    \/ StoreUp

SpecRace == InitRace /\ [][NextRace]_vars

----------------------------------------------------------------------------
\* The claims.

\* The session state answer_question starts from when the input was changed
\* to t.
Typed(s, t) == [Cur(s) EXCEPT !.input = t]

\* Session s's state changes: a run of s took a step.
Ran(s) ==
    \/ page'[s] # page[s]
    \/ chat'[s] # chat[s]
    \/ session_keys'[s] # session_keys[s]
    \/ input_text'[s] # input_text[s]
    \/ auth_status'[s] # auth_status[s]
    \/ username'[s] # username[s]
    \/ cleared'[s] # cleared[s]
    \/ r_sub'[s] # r_sub[s]

Last(q) == q[Len(q)]
HasNaN(sc) == \E i \in 1..Len(sc) : sc[i].nan

\* The records whose score is defined and not below any other defined score.
Maximal(sc) ==
    {i \in 1..Len(sc) :
        /\ ~sc[i].nan
        /\ \A j \in 1..Len(sc) : sc[j].nan \/ LessEq(sc[j], sc[i])}

\* C1: with a non-empty loaded corpus, a query that is non-empty after
\* trimming records exactly one turn, and its answer is the 'answer' field of
\* a record of the loaded corpus, at an index in 0 .. N-1.
C1_AnswerFromCorpus ==
    \A s \in Sessions :
        (page[s] = "chat" /\ Len(qas_cache.docs) > 0)
        => \A t \in Texts, x \in Vectors :
               strip(t) # <<>>
               => LET after == answer_question(Typed(s, t), x)
                  IN  /\ Len(after.chat) = Len(chat[s]) + 1
                      /\ \E i \in 0..(Len(qas_cache.docs) - 1) :
                             Last(after.chat)[2] = qas_cache.docs[i + 1].answer

C1_Witness ==
    \E s \in Sessions :
        /\ Len(qas_cache.docs) >= 2
        /\ chat[s] # <<>>
        /\ Last(chat[s])[2] = qas_cache.docs[2].answer

\* C2: when two or more records have the same maximal similarity score to
\* the query, the recorded answer is that of the lowest-indexed one of them.
C2_TieLowestIndex ==
    [][\A s \in Sessions, t \in Texts, x \in Vectors :
          (SubmitQuery(s, t, x, FALSE) /\ strip(t) # <<>>)
          => LET M == Maximal(scores(qas_cache.EMB, x))
             IN  Cardinality(M) >= 2
                   => Last(chat'[s])[2] = qas_cache.docs[Min(M)].answer]_vars

\* The same, for the queries whose score vector holds no NaN.
TieLowestIndexDefined ==
    [][\A s \in Sessions, t \in Texts, x \in Vectors :
          (SubmitQuery(s, t, x, FALSE) /\ strip(t) # <<>>
             /\ ~HasNaN(scores(qas_cache.EMB, x)))
          => Last(chat'[s])[2] =
                 qas_cache.docs[Min(Maximal(scores(qas_cache.EMB, x)))].answer]_vars

\* C3: an input that is empty or only whitespace changes nothing: no turn is
\* appended, the history stays as it was, and the run goes on as a plain
\* rerun does.
C3_BlankInputNoOp ==
    \A s \in Sessions :
        page[s] = "chat"
        => \A t \in Texts, x \in Vectors :
               strip(t) = <<>>
               => /\ answer_question(Typed(s, t), x) = Typed(s, t)
                  /\ answer_question(Typed(s, t), x).chat = chat[s]

C3_Witness ==
    \E s \in Sessions :
        /\ page[s] = "chat"
        /\ input_text[s] # <<>>
        /\ strip(input_text[s]) = <<>>
        /\ chat[s] # <<>>

\* C4: after the Clear Chat action (the button returned True in the run) the
\* history is the empty sequence, also when a query came in the same rerun.
C4_ClearEmpties ==
    \A s \in Sessions :
        cleared[s] => chat[s] = <<>> /\ "chat" \in session_keys[s]

C4_Witness == \E s \in Sessions : cleared[s] /\ page[s] = "chat"

\* C5: a register submission whose username is in the store inserts nothing,
\* changes no document and ends with 'Username already exists'.
C5_RegisterExisting ==
    [][\A s \in Sessions, f \in RegForms :
          (Matching(f.username) # {} /\ RegisterSubmit(s, f))
          => /\ user_col' = user_col
             /\ ~r_sub'[s].pending
             /\ store_up => page'[s] = "reg_exists"]_vars

C5_Witness ==
    \E s \in Sessions : page[s] = "reg_exists" /\ Len(user_col) >= 1

\* C6, as stated: in no run where the ping fails or the corpus is empty is
\* the query input offered or a turn appended.
C6_NoQueryWithoutStore ==
    [][\A s \in Sessions :
          (Ran(s) /\ (~store_up \/ Len(qa_col) = 0))
          => /\ "input_text" \notin session_keys'[s]
             /\ page'[s] # "chat"
             /\ chat'[s] = chat[s]]_vars

\* C6, amended: in no run where the ping fails or the corpus is empty is the
\* query input offered; with an empty corpus no turn is ever appended; a run
\* whose ping fails appends at most the one turn of a query typed into an
\* input that an earlier run offered.
C6_NoInputWithoutStore ==
    [][\A s \in Sessions :
          (Ran(s) /\ (~store_up \/ Len(qa_col) = 0))
          => /\ "input_text" \notin session_keys'[s]
             /\ page'[s] # "chat"
             /\ Len(qa_col) = 0 => chat'[s] = <<>>
             /\ chat'[s] # chat[s]
                  => /\ page[s] = "chat"
                     /\ Len(chat'[s]) = Len(chat[s]) + 1
                     /\ SubSeq(chat'[s], 1, Len(chat[s])) = chat[s]]_vars

C6_Witness ==
    \E s \in Sessions :
        /\ ~store_up
        /\ page[s] = "db_error"
        /\ auth_status[s] = "True"
        /\ qas_cache.loaded

\* C7: a zero raw embedding, of a corpus record at load time or of the query,
\* fails the operation: load_qas caches no NaN row, and no turn is recorded
\* from a score vector that holds a NaN.
C7_ZeroVectorGuard ==
    [][/\ qas_cache'.loaded
            => \A i \in 1..Len(qas_cache'.EMB) : ~qas_cache'.EMB[i].nan
       /\ \A s \in Sessions, t \in Texts, x \in Vectors :
            (SubmitQuery(s, t, x, FALSE) /\ strip(t) # <<>>
               /\ HasNaN(scores(qas_cache.EMB, x)))
            => chat'[s] = chat[s]]_vars

\* C8: the history is destroyed when the authenticated session ends, and at
\* every login it is empty: no turn from before a logout is still there.
C8_LogoutDestroysHistory ==
    [][\A s \in Sessions :
          /\ (auth_status[s] = "True" /\ auth_status'[s] # "True")
                => chat'[s] = <<>>
          /\ (auth_status[s] # "True" /\ auth_status'[s] = "True")
                => chat'[s] = <<>>]_vars

\* C9: no two documents of the credential store have the same username.
C9_UniqueUsernames ==
    \A i, j \in 1..Len(user_col) :
        i # j => user_col[i].username # user_col[j].username

\* C10: a query that is non-empty after trimming appends exactly one turn
\* (the trimmed text, the answer of the selected record) at the end, keeps
\* every earlier turn in place and empties the input text; apart from that
\* the history changes only by Clear Chat.
C10_QueryAppends ==
    \A s \in Sessions :
        page[s] = "chat"
        => \A t \in Texts, x \in Vectors :
               strip(t) # <<>>
               => LET after == answer_question(Typed(s, t), x)
                      idx == np_argmax(scores(qas_cache.EMB, x))
                  IN  /\ after.chat =
                            Append(chat[s],
                                   <<strip(t), qas_cache.docs[idx + 1].answer>>)
                      /\ after.input = <<>>

C10_OnlyClearRemoves ==
    \A s \in Sessions :
        chat'[s] # chat[s]
        => \/ cleared'[s] /\ chat'[s] = <<>>
           \/ /\ Len(chat'[s]) = Len(chat[s]) + 1
              /\ SubSeq(chat'[s], 1, Len(chat[s])) = chat[s]

\* C10: both parts: every such query appends its one turn at the end, and
\* nothing but Clear Chat removes or moves a turn.
C10_AppendOnly == [](C10_QueryAppends) /\ [][C10_OnlyClearRemoves]_vars

C10_Witness ==
    \E s \in Sessions :
        /\ Len(chat[s]) >= 2
        /\ chat[s][1] # chat[s][2]
        /\ input_text[s] = <<>>
        /\ page[s] = "chat"

=============================================================================
